---------------------------- MODULE Spec2Model ----------------------------
(***************************************************************************)
(* A model of day18 (src/main.go): a maze of keys and doors is read, every *)
(* start and key cell gets the list of its shortest paths to the keys      *)
(* (findPaths, a breadth-first search), and shortestPath searches the      *)
(* states (agents' cells, collected keys) with a memo table.               *)
(*                                                                         *)
(* Cells are identified by their position in the row-major cell array of   *)
(* the maze (the model's pointer).  Characters are bytes, keysets are      *)
(* bitmaps held in a 64-bit unsigned integer, as in the source.            *)
(***************************************************************************)
EXTENDS Naturals, Integers, Sequences, FiniteSets, TLC

\* ------------------------------------------------------------------------
\* Bounds of the model.

\* The generated inputs of SpecGrid are all grids of at most MaxCells cells.
MaxCells == 4

\* ------------------------------------------------------------------------
\* Input text.

Lower == << "a", "b", "c", "d", "e", "f", "g", "h", "i", "j", "k", "l", "m",
            "n", "o", "p", "q", "r", "s", "t", "u", "v", "w", "x", "y", "z" >>

Upper == << "A", "B", "C", "D", "E", "F", "G", "H", "I", "J", "K", "L", "M",
            "N", "O", "P", "Q", "R", "S", "T", "U", "V", "W", "X", "Y", "Z" >>

\* The byte of an input character.
Ord(ch) ==
    IF \E n \in 1..26 : Lower[n] = ch
    THEN 96 + (CHOOSE n \in 1..26 : Lower[n] = ch)
    ELSE IF \E n \in 1..26 : Upper[n] = ch
    THEN 64 + (CHOOSE n \in 1..26 : Upper[n] = ch)
    ELSE IF ch = "@" THEN 64
    ELSE IF ch = "#" THEN 35
    ELSE 46

\* scenario 1 of the puzzle statement:
\*   #########
\*   #b.A.@.a#
\*   #########
Maze1 ==
    << <<"#", "#", "#", "#", "#", "#", "#", "#", "#">>,
       <<"#", "b", ".", "A", ".", "@", ".", "a", "#">>,
       <<"#", "#", "#", "#", "#", "#", "#", "#", "#">> >>

\* scenario 2 of the puzzle statement:
\*   ########################
\*   #f.D.E.e.C.b.A.@.a.B.c.#
\*   ######################.#
\*   #d.....................#
\*   ########################
Maze2 ==
    << <<"#", "#", "#", "#", "#", "#", "#", "#", "#", "#", "#", "#", "#", "#", "#", "#", "#", "#", "#", "#", "#", "#", "#", "#">>,
       <<"#", "f", ".", "D", ".", "E", ".", "e", ".", "C", ".", "b", ".", "A", ".", "@", ".", "a", ".", "B", ".", "c", ".", "#">>,
       <<"#", "#", "#", "#", "#", "#", "#", "#", "#", "#", "#", "#", "#", "#", "#", "#", "#", "#", "#", "#", "#", "#", ".", "#">>,
       <<"#", "d", ".", ".", ".", ".", ".", ".", ".", ".", ".", ".", ".", ".", ".", ".", ".", ".", ".", ".", ".", ".", ".", "#">>,
       <<"#", "#", "#", "#", "#", "#", "#", "#", "#", "#", "#", "#", "#", "#", "#", "#", "#", "#", "#", "#", "#", "#", "#", "#">> >>

\* a loop: the shortest route a->c crosses door C, the route b->c does not:
\*   ########
\*   #a..@.b#
\*   #C####.#
\*   #.c....#
\*   ########
MazeLoop ==
    << <<"#", "#", "#", "#", "#", "#", "#", "#">>,
       <<"#", "a", ".", ".", "@", ".", "b", "#">>,
       <<"#", "C", "#", "#", "#", "#", ".", "#">>,
       <<"#", ".", "c", ".", ".", ".", ".", "#">>,
       <<"#", "#", "#", "#", "#", "#", "#", "#">> >>

\* key a lies behind its own door:
\*   #@Aa#
MazeGated ==
    << <<"#", "@", "A", "a", "#">> >>

\* two disconnected regions, each door's key in its own region:
\*   a.@.b.e#cD@.d
MazeTwo ==
    << <<"a", ".", "@", ".", "b", ".", "e", "#", "c", "D", "@", ".", "d">> >>

\* four agents, doors opened by keys of other regions:
\*   #######
\*   #a.#Cd#
\*   ##@#@##
\*   #######
\*   ##@#@##
\*   #cB#Ab#
\*   #######
MazeQuad ==
    << <<"#", "#", "#", "#", "#", "#", "#">>,
       <<"#", "a", ".", "#", "C", "d", "#">>,
       <<"#", "#", "@", "#", "@", "#", "#">>,
       <<"#", "#", "#", "#", "#", "#", "#">>,
       <<"#", "#", "@", "#", "@", "#", "#">>,
       <<"#", "c", "B", "#", "A", "b", "#">>,
       <<"#", "#", "#", "#", "#", "#", "#">> >>

\* two regions, the second with its key behind its own door:
\*   b@#@Aa
MazeTwoGated ==
    << <<"b", "@", "#", "@", "A", "a">> >>

\* two regions and a key cell no agent can reach:
\*   ab@#@c#d
MazeIsle ==
    << <<"a", "b", "@", "#", "@", "c", "#", "d">> >>

\* The hand-written inputs.
Mazes ==
    { Maze1, Maze2, MazeLoop, MazeGated, MazeTwo, MazeQuad, MazeTwoGated,
      MazeIsle }

\* The characters of the generated grids: wall, floor, start, a key, its
\* door, and a door without a key.
GridChars == { "#", ".", "@", "a", "A", "B" }

\* Every h x w grid over GridChars with h * w <= MaxCells.
Grids ==
    UNION { [1..h -> [1..w -> GridChars]] :
              <<h, w>> \in { hw \in (1..MaxCells) \X (1..MaxCells) :
                               hw[1] * hw[2] <= MaxCells } }

\* ------------------------------------------------------------------------
\* The input text as a graph.

\* The character at position p of the input (positions as in m.rows).
charAt(rows, p) ==
    rows[((p - 1) \div Len(rows[1])) + 1][((p - 1) % Len(rows[1])) + 1]

\* The positions that are not walls.
Open(rows) ==
    { p \in 1..(Len(rows) * Len(rows[1])) : charAt(rows, p) # "#" }

\* The open positions next to p: above, below, left, right.
Beside(rows, p) ==
    LET w == Len(rows[1])
    IN  { q \in { p - w, p + w,
                  IF (p - 1) % w # 0 THEN p - 1 ELSE p,
                  IF p % w # 0 THEN p + 1 ELSE p } :
            q # p /\ q \in Open(rows) }

IsKeyChar(ch) == \E n \in 1..26 : Lower[n] = ch
IsDoorChar(ch) == \E n \in 1..26 : Upper[n] = ch

KeyCells(rows) == { p \in Open(rows) : IsKeyChar(charAt(rows, p)) }
StartCells(rows) == { p \in Open(rows) : charAt(rows, p) = "@" }
Landmarks(rows) == KeyCells(rows) \cup StartCells(rows)

\* Unique key letters and at least one start cell.
WellFormed(rows) ==
    /\ StartCells(rows) # {}
    /\ \A k1, k2 \in KeyCells(rows) :
         charAt(rows, k1) = charAt(rows, k2) => k1 = k2

\* ------------------------------------------------------------------------
\* Cells and keysets.

\* F applied to the value of e: e is evaluated once, before F (a loop's
\* state is handed from one turn to the next as a value).
bind(e, F(_)) == CHOOSE r \in { F(x) : x \in {e} } : TRUE

\* The nil pointer (no cell: a wall).
Nil == [ nil |-> TRUE ]

empty == 0
start == 1
key == 2
door == 3

RECURSIVE bitAnd(_, _)
bitAnd(a, b) ==
    IF a = 0 \/ b = 0 THEN 0
    ELSE (a % 2) * (b % 2) + 2 * bitAnd(a \div 2, b \div 2)

RECURSIVE bitOr(_, _)
bitOr(a, b) ==
    IF a = 0 THEN b
    ELSE IF b = 0 THEN a
    ELSE (IF a % 2 = 1 \/ b % 2 = 1 THEN 1 ELSE 0)
         + 2 * bitOr(a \div 2, b \div 2)

\* char - 'a' on bytes.
shift(char) == (char - 97) % 256

\* k >> n and 1 << n on a 64-bit unsigned integer.
shr(k, n) == IF n < 64 THEN k \div (2 ^ n) ELSE 0
bit(n) == IF n < 64 THEN 2 ^ n ELSE 0

contains(k, char) == shr(k, shift(char)) % 2 = 1

plus(k, char) == bitOr(k, bit(shift(char)))

containsAll(k, keys) == bitAnd(k, keys) = keys

newCell(char) ==
    [ char |-> char, adj |-> <<>>, paths |-> <<>>,
      cellType |-> IF char = 64 THEN start
                   ELSE IF 97 <= char /\ char <= 122 THEN key
                   ELSE IF 65 <= char /\ char <= 90 THEN door
                   ELSE empty ]

\* A faulty variant of doorKey: the door's own character.
doorKeyRaw(char) == char

\* The key of a door: its lower-case character, adj.char | 32.
doorKey(char) == bitOr(char, 32)

\* join on the cell array: c and c1 are positions of cells.
join(rows, c, c1) ==
    LET r1 == [rows EXCEPT ![c].adj = Append(@, c1)]
    IN  [r1 EXCEPT ![c1].adj = Append(@, c)]

\* ------------------------------------------------------------------------
\* The maze.

\* The position in m.rows of row i, column j (both from 0).
at(w, i, j) == i * w + j + 1

newMaze(w, h) ==
    [ w |-> w, h |-> h, rows |-> [p \in 1..(w * h) |-> Nil], keys |-> 0 ]

addCell(m, i, j, c) ==
    LET p  == at(m.w, i, j)
        r0 == [m.rows EXCEPT ![p] = c]
        r1 == IF i > 0 /\ r0[at(m.w, i - 1, j)] # Nil
              THEN join(r0, p, at(m.w, i - 1, j)) ELSE r0
        r2 == IF j > 0 /\ r1[at(m.w, i, j - 1)] # Nil
              THEN join(r1, p, at(m.w, i, j - 1)) ELSE r1
        r3 == IF i + 1 < m.h /\ r2[at(m.w, i + 1, j)] # Nil
              THEN join(r2, p, at(m.w, i + 1, j)) ELSE r2
        r4 == IF j + 1 < m.w /\ r3[at(m.w, i, j + 1)] # Nil
              THEN join(r3, p, at(m.w, i, j + 1)) ELSE r3
    IN  [ m EXCEPT !.rows = r4,
                   !.keys = IF c.cellType = key THEN plus(@, c.char) ELSE @ ]

\* The adjacent cells of current.dest, from the n-th on, in findPaths:
\* acc holds the queue q and the set seen.
RECURSIVE visitAdj(_, _, _, _)
visitAdj(rows, current, n, acc) ==
    IF n > Len(rows[current.dest].adj) THEN acc
    ELSE LET adj == rows[current.dest].adj[n]
         IN  IF adj \in acc.seen
             THEN visitAdj(rows, current, n + 1, acc)
             ELSE LET next == [ dest |-> adj, len |-> current.len + 1,
                                reqKeys |->
                                  IF rows[adj].cellType = door
                                  THEN plus(current.reqKeys,
                                            doorKey(rows[adj].char))
                                  ELSE current.reqKeys ]
                  IN  bind([ q |-> Append(acc.q, next),
                             seen |-> acc.seen \cup {adj} ],
                           LAMBDA a : visitAdj(rows, current, n + 1, a))

\* A faulty variant of record: the path of no hops, to the origin, is left
\* out.
recordAwayFromOrigin(rows, paths, current) ==
    IF rows[current.dest].cellType = key /\ current.len > 0
    THEN Append(paths, current) ELSE paths

\* The paths found so far and the path taken from the queue: a path that
\* ends at a key is added.
record(rows, paths, current) ==
    IF rows[current.dest].cellType = key
    THEN Append(paths, current) ELSE paths

\* A faulty variant of expand: the search does not go on beyond a key.
expandUpToKey(rows, current, acc) ==
    IF rows[current.dest].cellType = key /\ current.len > 0 THEN acc
    ELSE visitAdj(rows, current, 1, acc)

\* The cells next to the end of the path taken from the queue are visited.
expand(rows, current, acc) == visitAdj(rows, current, 1, acc)

\* One turn of the loop of findPaths: acc holds the queue q, the set seen
\* and the paths found; nothing is left to do once q is empty.
searchStep(rows, acc) ==
    IF Len(acc.q) = 0 THEN acc
    ELSE LET current == acc.q[1]
         IN  bind(expand(rows, current, [q |-> acc.q, seen |-> acc.seen]),
                  LAMBDA a : [ q |-> Tail(a.q), seen |-> a.seen,
                               paths |-> record(rows, acc.paths, current) ])

\* n turns of the loop of findPaths (halved, to keep the evaluation shallow).
RECURSIVE searchQueue(_, _, _)
searchQueue(rows, acc, n) ==
    IF n = 0 THEN acc
    ELSE IF n = 1 THEN searchStep(rows, acc)
    ELSE bind(searchQueue(rows, acc, n \div 2),
              LAMBDA a : searchQueue(rows, a, n - (n \div 2)))

\* The loop ends when the queue is empty: every cell enters the queue at
\* most once, so after as many turns as there are cells.
findPaths(rows, c) ==
    searchQueue(rows,
                [ q |-> << [len |-> 0, dest |-> c, reqKeys |-> 0] >>,
                  seen |-> {c}, paths |-> <<>> ],
                Len(rows)).paths

buildPaths(m) ==
    [ m EXCEPT !.rows =
        [ p \in DOMAIN m.rows |->
            IF m.rows[p] # Nil
               /\ (m.rows[p].cellType = key \/ m.rows[p].cellType = start)
            THEN [ m.rows[p] EXCEPT !.paths = findPaths(m.rows, p) ]
            ELSE m.rows[p] ] ]

\* The loops of readMaze over the cells lo..hi of the input (row-major, from
\* 0; halved, to keep the evaluation shallow).
RECURSIVE addCells(_, _, _, _)
addCells(m, rows, lo, hi) ==
    IF lo > hi THEN m
    ELSE IF lo = hi
    THEN LET i == lo \div m.w
             j == lo % m.w
             char == Ord(rows[i + 1][j + 1])
         IN  IF char # 35 THEN addCell(m, i, j, newCell(char)) ELSE m
    ELSE LET mid == (lo + hi) \div 2
         IN  bind(addCells(m, rows, lo, mid),
                  LAMBDA m1 : addCells(m1, rows, mid + 1, hi))

readMaze(rows) ==
    LET w == Len(rows[1])
        h == Len(rows)
    IN  bind(addCells(newMaze(w, h), rows, 0, w * h - 1), buildPaths)

\* The start cells of m among the cells lo..hi, in row-major order.
RECURSIVE startRange(_, _, _)
startRange(m, lo, hi) ==
    IF lo > hi THEN <<>>
    ELSE IF lo = hi
    THEN IF m.rows[lo] # Nil /\ m.rows[lo].cellType = start
         THEN << lo >> ELSE <<>>
    ELSE LET mid == (lo + hi) \div 2
         IN  startRange(m, lo, mid) \o startRange(m, mid + 1, hi)

startCells(m) == startRange(m, 1, m.w * m.h)

\* ------------------------------------------------------------------------
\* The program state.

VARIABLES
    input,   \* the rows read from r
    pc,      \* main's position: "main", "search", "print", "done"
    m,       \* the maze
    heap,    \* the cell slices allocated for states: heap[ref] is an array
    stack,   \* the activations of shortestPath, the running one last
    table,   \* the memo table
    ret,     \* the value the last activation returned
    output   \* the lines written to standard output

vars == << input, pc, m, heap, stack, table, ret, output >>

\* n printed by %d.
RECURSIVE decimal(_)
decimal(n) ==
    IF n < 10 THEN << 48 + n >>
    ELSE decimal(n \div 10) \o << 48 + (n % 10) >>

\* A faulty variant of stateString: the keyset is left out of the key.
stateStringOfCells(cells, keys) ==
    [ n \in 1..Len(cells) |-> m.rows[cells[n]].char ]

\* state.String of a state with the cells array cells and the keyset keys.
stateString(cells, keys) ==
    [ n \in 1..Len(cells) |-> m.rows[cells[n]].char ] \o decimal(keys)

String(s) == stateString(heap[s.cells], s.keys)

\* A faulty variant of copy: the new state shares the array of s.
copyShared(h, s) == [ heap |-> h, s |-> s ]

\* state.copy: the new state and the heap with its freshly made array.
copy(h, s) ==
    [ heap |-> Append(h, h[s.cells]),
      s |-> [ cells |-> Len(h) + 1, keys |-> s.keys ] ]

\* An activation of shortestPath on s, about to run its first statement.
call(s) ==
    [ s |-> s, stateKey |-> <<>>, min |-> 0, i |-> 0, cell |-> 0, j |-> 0,
      path |-> [len |-> 0, dest |-> 0, reqKeys |-> 0], at |-> "enter" ]

Top == stack[Len(stack)]

\* A faulty variant of lookup: a stored 0 counts as no entry.
lookupNonZero(t, stateKey) ==
    IF stateKey \in DOMAIN t /\ t[stateKey] # 0
    THEN [ d |-> t[stateKey], ok |-> TRUE ]
    ELSE [ d |-> 0, ok |-> FALSE ]

\* The table lookup d, ok := table[stateKey].
lookup(t, stateKey) ==
    IF stateKey \in DOMAIN t
    THEN [ d |-> t[stateKey], ok |-> TRUE ]
    ELSE [ d |-> 0, ok |-> FALSE ]

\* A faulty variant of ignored: shut doors do not count.
ignoredIfCollected(s, path) ==
    contains(s.keys, m.rows[path.dest].char)

\* The path is ignored: its key is collected or one of its doors is shut.
ignored(s, path) ==
    contains(s.keys, m.rows[path.dest].char)
    \/ ~ containsAll(s.keys, path.reqKeys)

\* A faulty variant of moved: the first agent is moved, whichever agent's
\* path it is.
movedFirst(h, ref, i, dest) == [h EXCEPT ![ref][1] = dest]

\* nextState.cells[i] = path.dest on the array ref of the heap h.
moved(h, ref, i, dest) == [h EXCEPT ![ref][i + 1] = dest]

\* The running activation returns d.  The arrays made for the states of the
\* activations it called are garbage: the arrays above the caller's go.
return(d) ==
    /\ ret' = d
    /\ stack' = SubSeq(stack, 1, Len(stack) - 1)
    /\ heap' = IF Len(stack) > 1
               THEN SubSeq(heap, 1, stack[Len(stack) - 1].s.cells)
               ELSE heap
    /\ pc' = IF Len(stack) > 1 THEN pc ELSE "print"

\* The inputs of the search: the hand-written mazes and the well-formed
\* grids.
Init ==
    /\ input \in Mazes \cup { g \in Grids : WellFormed(g) }
    /\ pc = "main"
    /\ m = newMaze(0, 0)
    /\ heap = <<>>
    /\ stack = <<>>
    /\ table = <<>>
    /\ ret = 0
    /\ output = <<>>

\* The hand-written mazes alone.
InitMazes ==
    /\ input \in Mazes
    /\ pc = "main"
    /\ m = newMaze(0, 0)
    /\ heap = <<>>
    /\ stack = <<>>
    /\ table = <<>>
    /\ ret = 0
    /\ output = <<>>

\* Every grid, well-formed or not, and the hand-written mazes.
InitGrid ==
    /\ input \in Grids \cup Mazes
    /\ pc = "main"
    /\ m = newMaze(0, 0)
    /\ heap = <<>>
    /\ stack = <<>>
    /\ table = <<>>
    /\ ret = 0
    /\ output = <<>>

\* main: the maze is read and shortestPath is called on the initial state
\* with an empty table.
ReadMaze ==
    /\ pc = "main"
    /\ m' = readMaze(input)
    /\ heap' = << startCells(m') >>
    /\ stack' = << call([cells |-> 1, keys |-> 0]) >>
    /\ table' = <<>>
    /\ pc' = "search"
    /\ UNCHANGED << input, ret, output >>

\* shortestPath up to the loop: the state's key, the end state, the table.
Enter ==
    /\ pc = "search"
    /\ Top.at = "enter"
    /\ LET stateKey == String(Top.s)
           hit == lookup(table, stateKey)
       IN  IF Top.s.keys = m.keys THEN return(0)
           ELSE IF hit.ok THEN return(hit.d)
           ELSE /\ stack' = [stack EXCEPT ![Len(stack)] =
                               [@ EXCEPT !.stateKey = stateKey,
                                         !.min = 0, !.i = 0, !.at = "outer"]]
                /\ UNCHANGED << heap, ret, pc >>
    /\ UNCHANGED << input, m, table, output >>

\* for i, cell := range s.cells
Outer ==
    /\ pc = "search"
    /\ Top.at = "outer"
    /\ stack' = [stack EXCEPT ![Len(stack)] =
                   IF Top.i < Len(heap[Top.s.cells])
                   THEN [@ EXCEPT !.cell = heap[Top.s.cells][Top.i + 1],
                                  !.j = 0, !.at = "inner"]
                   ELSE [@ EXCEPT !.at = "store"]]
    /\ UNCHANGED << input, pc, m, heap, table, ret, output >>

\* for _, path := range cell.paths: the path is ignored, or shortestPath
\* is called on the next state.
Inner ==
    /\ pc = "search"
    /\ Top.at = "inner"
    /\ LET paths == m.rows[Top.cell].paths
       IN  IF Top.j >= Len(paths)
           THEN /\ stack' = [stack EXCEPT ![Len(stack)] =
                               [@ EXCEPT !.i = @ + 1, !.at = "outer"]]
                /\ heap' = heap
           ELSE LET path == paths[Top.j + 1]
                    made == copy(heap, Top.s)
                    nextState == [made.s EXCEPT !.keys =
                                    plus(Top.s.keys, m.rows[path.dest].char)]
                IN  IF ignored(Top.s, path)
                    THEN /\ stack' = [stack EXCEPT ![Len(stack)] =
                                        [@ EXCEPT !.path = path, !.j = @ + 1]]
                         /\ heap' = heap
                    ELSE /\ heap' = moved(made.heap, nextState.cells, Top.i,
                                          path.dest)
                         /\ stack' = Append(
                               [stack EXCEPT ![Len(stack)] =
                                  [@ EXCEPT !.path = path, !.at = "wait"]],
                               call(nextState))
    /\ UNCHANGED << input, pc, m, table, ret, output >>

\* The called shortestPath has returned: dist and min.
Resume ==
    /\ pc = "search"
    /\ Top.at = "wait"
    /\ LET dist == Top.path.len + ret
       IN  stack' = [stack EXCEPT ![Len(stack)] =
                       [@ EXCEPT !.min = IF Top.min = 0 \/ dist < Top.min
                                         THEN dist ELSE @,
                                 !.j = @ + 1, !.at = "inner"]]
    /\ UNCHANGED << input, pc, m, heap, table, ret, output >>

\* table[stateKey] = min; return min
Store ==
    /\ pc = "search"
    /\ Top.at = "store"
    /\ table' = [ k \in DOMAIN table \cup {Top.stateKey} |->
                    IF k = Top.stateKey THEN Top.min ELSE table[k] ]
    /\ return(Top.min)
    /\ UNCHANGED << input, m, output >>

\* main prints the result.
Printf ==
    /\ pc = "print"
    /\ output' = Append(output, ret)
    /\ pc' = "done"
    /\ UNCHANGED << input, m, heap, stack, table, ret >>

Next ==
    \/ ReadMaze
    \/ Enter
    \/ Outer
    \/ Inner
    \/ Resume
    \/ Store
    \/ Printf

Spec == Init /\ [][Next]_vars

\* The program is one thread that runs on while it has a step to take.
FairSpec == InitMazes /\ [][Next]_vars /\ WF_vars(Next)

\* The mazes of all small grids are read.
SpecGrid == InitGrid /\ [][ReadMaze]_vars

\* ------------------------------------------------------------------------
\* Shortest routes in the graph of the input text (not in the cells'
\* adjacency lists): what the claims compare findPaths with.

\* One more layer of cells around c: acc.at maps the cells within acc.n
\* hops of c to their number of hops, acc.front are those at acc.n hops.
NextLayer(rows, acc) ==
    LET next == UNION { Beside(rows, p) : p \in acc.front } \ DOMAIN acc.at
    IN  [ n |-> acc.n + 1, front |-> next,
          at |-> [ p \in DOMAIN acc.at \cup next |->
                     IF p \in next THEN acc.n + 1 ELSE acc.at[p] ] ]

\* n more layers (halved, to keep the evaluation shallow).
RECURSIVE Layers(_, _, _)
Layers(rows, acc, n) ==
    IF n = 0 THEN acc
    ELSE IF n = 1 THEN NextLayer(rows, acc)
    ELSE bind(Layers(rows, acc, n \div 2),
              LAMBDA a : Layers(rows, a, n - (n \div 2)))

\* The number of hops of a shortest route from c to every cell connected
\* to c.
HopsFrom(rows, c) ==
    Layers(rows, [ n |-> 0, front |-> {c}, at |-> [ p \in {c} |-> 0 ] ],
           Len(rows) * Len(rows[1])).at

\* The number of hops of a shortest route from c to k, -1 if there is none.
Hops(rows, c, k) ==
    bind(HopsFrom(rows, c),
         LAMBDA hops : IF k \in DOMAIN hops THEN hops[k] ELSE 0 - 1)

\* The letters of a keyset.
KeySet(k) == { ch \in 97..122 : (k \div (2 ^ (ch - 97))) % 2 = 1 }

\* The keys of the doors at position q: the lower-case letter of a door.
DoorKeys(rows, q) ==
    IF IsDoorChar(charAt(rows, q)) THEN { Ord(charAt(rows, q)) + 32 } ELSE {}

\* The shortest routes from c, one hop longer: acc.ends are the pairs
\* <<cell, keys of the doors crossed>> of the shortest routes of acc.n hops.
NextHop(rows, hops, acc) ==
    [ n |-> acc.n + 1,
      ends |-> UNION { { << q, e[2] \cup DoorKeys(rows, q) >> :
                           q \in { r \in Beside(rows, e[1]) :
                                     hops[r] = acc.n + 1 } } :
                       e \in acc.ends } ]

RECURSIVE RoutesFrom(_, _, _, _)
RoutesFrom(rows, hops, acc, n) ==
    IF n = 0 THEN acc
    ELSE IF n = 1 THEN NextHop(rows, hops, acc)
    ELSE bind(RoutesFrom(rows, hops, acc, n \div 2),
              LAMBDA a : RoutesFrom(rows, hops, a, n - (n \div 2)))

\* The pairs <<cell, keys of the doors crossed>> of the shortest routes from
\* c that have n hops.
Routes(rows, c, n) ==
    bind(HopsFrom(rows, c),
         LAMBDA hops :
           RoutesFrom(rows, hops, [ n |-> 0, ends |-> { << c, {} >> } ], n).ends)

\* The paths of the landmark at position c, once the maze is read.
PathsOf(c) == m.rows[c].paths

PathsTo(c, k) == { n \in 1..Len(PathsOf(c)) : PathsOf(c)[n].dest = k }

MazeRead == pc # "main"

\* ------------------------------------------------------------------------
\* Claims about findPaths (checked under SpecGrid).

\* C7: for every landmark c and every key cell k, findPaths(c) holds exactly
\* one path to k when k is connected to c, of the shortest number of hops,
\* and no path to k when it is not.
C7_ShortestPathToEveryKey ==
    MazeRead =>
      \A c \in Landmarks(input), k \in KeyCells(input) :
        bind(Hops(input, c, k),
             LAMBDA hops :
               IF hops >= 0
               THEN /\ Cardinality(PathsTo(c, k)) = 1
                    /\ \A n \in PathsTo(c, k) : PathsOf(c)[n].len = hops
               ELSE PathsTo(c, k) = {})

\* A maze is read in which a landmark reaches a key that lies behind
\* another key, and a key cell it is not connected to.
C7_Witness ==
    /\ MazeRead
    /\ \E c \in StartCells(input), k1, k2, k3 \in KeyCells(input) :
         /\ Hops(input, c, k1) = 1
         /\ Hops(input, c, k2) = 2
         /\ Beside(input, c) = {k1}
         /\ Hops(input, c, k3) < 0
         /\ Len(PathsOf(c)) = 2

\* C8: every path of findPaths(c) is matched by a route from c to its
\* destination of exactly len hops (a shortest one) whose doors have exactly
\* the keys reqKeys; key cells on the route add nothing.
C8_ReqKeysAreTheDoorsOfARoute ==
    MazeRead =>
      \A c \in Landmarks(input) :
        \A n \in 1..Len(PathsOf(c)) :
          LET p == PathsOf(c)[n]
          IN  << p.dest, KeySet(p.reqKeys) >> \in Routes(input, c, p.len)

\* A maze is read in which a path crosses a door whose key is nowhere in
\* the maze, and passes a key cell on its way.
C8_Witness ==
    /\ MazeRead
    /\ \E c \in Landmarks(input) :
         \E n \in 1..Len(PathsOf(c)) :
           /\ PathsOf(c)[n].reqKeys = 2
           /\ PathsOf(c)[n].len = 3
           /\ \A k \in KeyCells(input) : charAt(input, k) = "a"
           /\ \E k \in KeyCells(input) : Hops(input, c, k) = 1

\* C9 as stated: the path list of a key cell holds no path to the cell
\* itself.
C9_NoPathToItself ==
    MazeRead => \A c \in KeyCells(input) : PathsTo(c, c) = {}

\* C9 amended: the path list of a key cell starts with the path to the
\* cell itself, of length 0 and without required keys, and holds no other
\* path to it; the path list of a start cell holds no path to the cell.
C9_OnePathToItselfOfLengthZero ==
    MazeRead =>
      /\ \A c \in KeyCells(input) :
           /\ PathsTo(c, c) = {1}
           /\ PathsOf(c)[1] = [len |-> 0, dest |-> c, reqKeys |-> 0]
      /\ \A c \in StartCells(input) : PathsTo(c, c) = {}

\* A maze is read with a key cell that has a path to another key and a
\* start cell.
C9_Witness ==
    /\ MazeRead
    /\ \E c \in KeyCells(input) : Len(PathsOf(c)) > 1
    /\ StartCells(input) # {}

\* ------------------------------------------------------------------------
\* The search as the claims state it, on states given by their values: the
\* cells of the agents (a sequence) and the keyset, in the maze mz.

\* The moves <<agent, path>> open in a state: the path starts at the agent's
\* cell, its key is not collected, the keys of its doors are.
Moves(mz, cells, keys) ==
    { mv \in (1..Len(cells)) \X (1..Len(mz.rows)) :
        /\ mv[2] <= Len(mz.rows[cells[mv[1]]].paths)
        /\ LET p == mz.rows[cells[mv[1]]].paths[mv[2]]
           IN  /\ mz.rows[p.dest].char \notin KeySet(keys)
               /\ KeySet(p.reqKeys) \subseteq KeySet(keys) }

PathOf(mz, cells, mv) == mz.rows[cells[mv[1]]].paths[mv[2]]

\* The state after a move: the agent stands on the path's destination and
\* the destination's key is collected.
CellsAfter(mz, cells, mv) ==
    [cells EXCEPT ![mv[1]] = PathOf(mz, cells, mv).dest]

KeysAfter(mz, cells, keys, mv) ==
    keys + 2 ^ (mz.rows[PathOf(mz, cells, mv).dest].char - 97)

\* The moves in the order of the loops of shortestPath.
MovesInOrder(mz, cells, keys) ==
    LET open == Moves(mz, cells, keys)
        before(a, b) == a[1] < b[1] \/ (a[1] = b[1] /\ a[2] < b[2])
    IN  [ r \in 1..Cardinality(open) |->
            CHOOSE mv \in open :
              Cardinality({ o \in open : before(o, mv) }) = r - 1 ]

Least(S) == CHOOSE x \in S : \A y \in S : x <= y

\* min after the loops of shortestPath have seen the distances dists, by
\* "if min == 0 || dist < min { min = dist }" from min = 0: a distance of 0
\* starts the minimum anew.
MinOf(dists) ==
    LET zeros == { r \in 1..Len(dists) : dists[r] = 0 }
        last == IF zeros = {} THEN 0
                ELSE CHOOSE r \in zeros : \A z \in zeros : z <= r
    IN  IF last = Len(dists) THEN 0
        ELSE Least({ dists[r] : r \in (last + 1)..Len(dists) })

\* shortestPath without its table: the end state, else the minimum over
\* the moves that are not ignored.
RECURSIVE SolveIn(_, _, _)
SolveIn(mz, cells, keys) ==
    IF keys = mz.keys THEN 0
    ELSE LET order == MovesInOrder(mz, cells, keys)
         IN  MinOf([ r \in 1..Len(order) |->
                       PathOf(mz, cells, order[r]).len
                       + SolveIn(mz, CellsAfter(mz, cells, order[r]),
                                 KeysAfter(mz, cells, keys, order[r])) ])

\* The least sum of path lengths over the sequences of open moves that end
\* with all keys of the maze collected; -1 if there is no such sequence.
RECURSIVE BestIn(_, _, _)
BestIn(mz, cells, keys) ==
    IF keys = mz.keys THEN 0
    ELSE LET sums ==
               { bind(BestIn(mz, CellsAfter(mz, cells, mv),
                             KeysAfter(mz, cells, keys, mv)),
                      LAMBDA rest :
                        IF rest < 0 THEN 0 - 1
                        ELSE PathOf(mz, cells, mv).len + rest) :
                 mv \in Moves(mz, cells, keys) }
         IN  IF sums \ {0 - 1} = {} THEN 0 - 1 ELSE Least(sums \ {0 - 1})

\* A state with keys missing and no open move.
DeadEnd(mz, cells, keys) ==
    keys # mz.keys /\ Moves(mz, cells, keys) = {}

\* The state of the running activation, by its values.
TopCells == heap[Top.s.cells]
TopKeys == Top.s.keys

Searching == pc = "search"

\* ------------------------------------------------------------------------
\* Claims about shortestPath (checked under Spec).

\* C1: for a well-formed maze in which some order of open moves collects
\* all keys, the result printed is the least sum of path lengths over the
\* sequences of open moves that collect all keys.
C1_ResultIsTheMinimum ==
    (pc = "done" /\ WellFormed(input)) =>
      bind(BestIn(m, startCells(m), 0),
           LAMBDA best : best >= 0 => output = << best >>)

\* C2: the puzzle's two mazes give 8 and 86.
C2_ScenarioResults ==
    pc = "done" =>
      /\ input = Maze1 => output = << 8 >>
      /\ input = Maze2 => output = << 86 >>

\* The search of the second maze has ended with 86.
C2_Witness == pc = "done" /\ input = Maze2 /\ output = << 86 >>

\* C3: a state with keys missing and no open move does not get the
\* remaining cost 0, neither when shortestPath returns for it nor as what
\* it adds to the cost of the state before it.
C3_NoOpenMoveIsNeverZero ==
    Searching =>
      /\ (Top.at = "store" /\ DeadEnd(m, TopCells, TopKeys)) => Top.min # 0
      /\ (Top.at = "wait"
          /\ DeadEnd(m, CellsAfter(m, TopCells, << Top.i + 1, Top.j + 1 >>),
                     KeysAfter(m, TopCells, TopKeys,
                               << Top.i + 1, Top.j + 1 >>)))
         => ret # 0

\* C4: in a well-formed maze, the value stored for a state under its key
\* and the value read from the table for a state under its key are the
\* value of shortestPath without the table on that state.
C4_TableAgreesWithPlainRecursion ==
    (Searching /\ WellFormed(input)) =>
      /\ Top.at = "store" =>
           /\ Top.stateKey = String(Top.s)
           /\ Top.min = SolveIn(m, TopCells, TopKeys)
      /\ (Top.at = "enter" /\ TopKeys # m.keys
          /\ String(Top.s) \in DOMAIN table)
         => table[String(Top.s)] = SolveIn(m, TopCells, TopKeys)

\* A value is read from the table for a state of several agents, one of
\* them still on its start cell, with keys collected.
C4_Witness ==
    /\ Searching
    /\ Top.at = "enter"
    /\ TopKeys # m.keys
    /\ String(Top.s) \in DOMAIN table
    /\ table[String(Top.s)] > 0
    /\ Len(TopCells) > 1
    /\ \E n \in 1..Len(TopCells) : m.rows[TopCells[n]].char = 64
    /\ TopKeys > 0

\* The cells connected to the start cell s.
Region(rows, s) == DOMAIN HopsFrom(rows, s)

\* The maze of the region of s alone: every other cell is a wall.
RegionRows(rows, s) ==
    bind(Region(rows, s),
         LAMBDA region :
           [ i \in 1..Len(rows) |->
               [ j \in 1..Len(rows[1]) |->
                   IF at(Len(rows[1]), i - 1, j - 1) \in region
                   THEN rows[i][j] ELSE "#" ] ])

\* Several start cells, no two of them connected, and the key of every door
\* of a region in that region.
Independent(rows) ==
    /\ Cardinality(StartCells(rows)) > 1
    /\ \A s1, s2 \in StartCells(rows) :
         s1 # s2 => s2 \notin Region(rows, s1)
    /\ \A s \in StartCells(rows) :
         \A d \in Region(rows, s) :
           IsDoorChar(charAt(rows, d)) =>
             \E k \in Region(rows, s) :
               /\ IsKeyChar(charAt(rows, k))
               /\ Ord(charAt(rows, k)) = Ord(charAt(rows, d)) + 32

\* The result of the search on the region of s alone, with its one agent.
RegionResult(rows, s) ==
    bind(readMaze(RegionRows(rows, s)),
         LAMBDA mz : SolveIn(mz, startCells(mz), 0))

RECURSIVE SumOfRegions(_, _)
SumOfRegions(rows, starts) ==
    IF starts = {} THEN 0
    ELSE LET s == CHOOSE x \in starts : TRUE
         IN  RegionResult(rows, s) + SumOfRegions(rows, starts \ {s})

\* C5: for a maze of several mutually disconnected regions, each door's key
\* in the door's region, the result is the sum of the results of the
\* regions searched alone.
C5_ResultIsTheSumOfTheRegions ==
    (pc = "done" /\ Independent(input)) =>
      output = << SumOfRegions(input, StartCells(input)) >>

\* The search has ended for such a maze that has a door, every region
\* adding to the result.
C5_Witness ==
    /\ pc = "done"
    /\ Independent(input)
    /\ \E d \in Open(input) : IsDoorChar(charAt(input, d))
    /\ \A s \in StartCells(input) : RegionResult(input, s) > 0
    /\ output = << SumOfRegions(input, StartCells(input)) >>

\* C6: the state shortestPath is called on from a state s comes from s by
\* one open move: a path from the cell of an agent i whose key is not in
\* s.keys and whose required keys are; agent i stands on the path's
\* destination, the keyset has gained the destination's key and nothing
\* else; the other agents' cells and the caller's state are as they were.
C6_ExploredMovesAreLegal ==
    [][ (Searching /\ Len(stack') = Len(stack) + 1) =>
          LET caller == Top
              callee == stack'[Len(stack')]
              old == heap[caller.s.cells]
              new == heap'[callee.s.cells]
          IN  /\ \E i \in 1..Len(old) :
                   \E n \in 1..Len(m.rows[old[i]].paths) :
                     LET p == m.rows[old[i]].paths[n]
                     IN  /\ m.rows[p.dest].char \notin KeySet(caller.s.keys)
                         /\ KeySet(p.reqKeys) \subseteq KeySet(caller.s.keys)
                         /\ new = [old EXCEPT ![i] = p.dest]
                         /\ KeySet(callee.s.keys)
                              = KeySet(caller.s.keys)
                                  \cup { m.rows[p.dest].char }
              /\ stack'[Len(stack)].s = caller.s
              /\ heap'[caller.s.cells] = old
    ]_vars

\* shortestPath has been called on the state after a move of the second
\* agent along a path through a door.
C6_Witness ==
    /\ Searching
    /\ Len(stack) > 1
    /\ Top.at = "enter"
    /\ stack[Len(stack) - 1].i = 1
    /\ stack[Len(stack) - 1].path.reqKeys > 0

\* Every activation but the first has the keys of its caller and one more.
OneMoreKeyPerCall ==
    /\ \A n \in 2..Len(stack) :
         /\ KeySet(stack[n - 1].s.keys) \subseteq KeySet(stack[n].s.keys)
         /\ Cardinality(KeySet(stack[n].s.keys))
              = Cardinality(KeySet(stack[n - 1].s.keys)) + 1
    /\ Len(stack) <= Cardinality(KeySet(m.keys)) + 1

\* The value of a state is stored only when the table has none for its key.
StoredOnce ==
    (Searching /\ Top.at = "store") => Top.stateKey \notin DOMAIN table

\* An entry of the table stays as it is.
EntriesStay ==
    \A k \in DOMAIN table : k \in DOMAIN table' /\ table'[k] = table[k]

\* A call on a state whose key is in the table returns the stored value
\* at once.
CachedReturn ==
    (Searching /\ Top.at = "enter" /\ TopKeys # m.keys
     /\ String(Top.s) \in DOMAIN table)
    => /\ Len(stack') = Len(stack) - 1
       /\ ret' = table[String(Top.s)]
       /\ table' = table

\* C10: the search ends; every call has its caller's keys and one more, so
\* the calls are never nested deeper than the maze has keys; a table entry
\* is written once and never changed; a call on a state whose key is in the
\* table returns the stored value without exploring a move, a stored 0
\* included.
C10_EndsComputingEachStateOnce ==
    /\ []OneMoreKeyPerCall
    /\ []StoredOnce
    /\ [][EntriesStay]_vars
    /\ [][CachedReturn]_vars
    /\ <>(pc = "done")

\* shortestPath is called on a state whose key is in the table with the
\* value 0.
C10_Witness ==
    /\ Searching
    /\ Top.at = "enter"
    /\ TopKeys # m.keys
    /\ String(Top.s) \in DOMAIN table
    /\ table[String(Top.s)] = 0

=============================================================================
